---------------------------- MODULE Spec2Model ----------------------------
(***************************************************************************)
(* NIRMAIL: SPF / DKIM / DMARC evaluation.                                 *)
(*                                                                         *)
(* The module models three entry points of the program:                    *)
(*   Spec       evaluate_spf   (src/spf_evaluator.py), one top-level call  *)
(*   SpecDmarc  evaluate_dmarc (src/dmarc_evaluator.py), one call          *)
(*   SpecMail   run_mail_check (src/mail_engine.py), one request           *)
(*                                                                         *)
(* Python values: None is the string "None"; a dict is a TLA+ record whose *)
(* DOMAIN is its key set; a str that the code splits is a sequence of its  *)
(* parts.  DNS is the environment: an answer is drawn when the code asks.  *)
(***************************************************************************)
EXTENDS Integers, Sequences, FiniteSets, TLC

VARIABLES
    \* ---- evaluate_spf ----
    pc,            \* where the running entry point stands
    request,       \* arguments of the running entry point
    zone,          \* TXT answers the resolver has given so far, per name
    stack,         \* evaluate_spf activation records, outermost first
    seen,          \* state["seen"]
    spf_lookups,   \* state["spf_lookups"]
    dns_cache,     \* state["dns_cache"]
    trace,         \* trace["steps"] and trace["lookups"]
    spf_result,    \* value returned by the top-level evaluate_spf
    \* ---- evaluate_dmarc / run_mail_check ----
    dmarc_dns,     \* TXT answers at _dmarc.<name>
    dmarc_in,      \* keyword arguments of evaluate_dmarc
    dmarc,         \* dict returned by evaluate_dmarc
    dkim_info,     \* dict returned by check_dkim
    report         \* dict returned by run_mail_check

vars == << pc, request, zone, stack, seen, spf_lookups, dns_cache, trace,
           spf_result, dmarc_dns, dmarc_in, dmarc, dkim_info, report >>

spfVars == << zone, stack, seen, spf_lookups, dns_cache, trace, spf_result >>

None == "None"

\* dict.get(key) with the default None
Get(d, k) == IF k \in DOMAIN d THEN d[k] ELSE None

\* bool(x) of a str-or-None value: None and "" are falsy
Truthy(x) == x # None /\ x # ""

(***************************************************************************)
(* Names.  The model's domains are concrete names so that orgDomain and    *)
(* the SHA-256 bucket are the real functions restricted to them.           *)
(***************************************************************************)
SubDomain   == "mail.example.com"
OrgOfSub    == "example.com"
OtherDomain == "other.test"

MailDomains == { SubDomain, OrgOfSub, OtherDomain }

\* str.lower() on the strings the model uses
Lower(s) ==
    CASE s = "DMARC1"        -> "dmarc1"
      [] s = "P"             -> "p"
      [] s = "Example.COM."  -> "example.com."
      [] s = "A.Test."       -> "a.test."
      [] s = "Other.TEST"    -> "other.test"
      [] OTHER               -> s

(***************************************************************************)
(* SPF evaluator (src/spf_evaluator.py, src/spf_extractor.py)              *)
(*                                                                         *)
(* A term of a record ("-include:a.test", "a/24", "redirect=b.test") is    *)
(*   [q |-> the qualifier character or "", name |-> the mechanism or       *)
(*    modifier name, arg |-> the text after "name:" or "name=", cidr |->   *)
(*    the text after "/" of an a or mx term]                               *)
(* and an SPF record is the sequence of its terms after "v=spf1".          *)
(***************************************************************************)
MAX_SPF_LOOKUPS == 10
MAX_RECURSION_DEPTH == 20

\* s.rstrip(".")
RStripDot(s) ==
    CASE s = "example.com." -> "example.com"
      [] s = "a.test."      -> "a.test"
      [] OTHER              -> s

\* domain.strip().lower().rstrip(".")
normalize_domain(domain) == RStripDot(Lower(domain))

\* split_qualifier(raw_mech)[0]
split_qualifier(term) == IF term.q \in { "+", "-", "~", "?" } THEN term.q ELSE "+"

\* faulty variant: "-" and "~" are swapped
result_from_qualifier_Swapped(q) ==
    CASE q = "+" -> "PASS" [] q = "-" -> "SOFTFAIL" [] q = "~" -> "FAIL"
      [] q = "?" -> "NEUTRAL" [] OTHER -> "NEUTRAL"

result_from_qualifier(q) ==
    CASE q = "+" -> "PASS" [] q = "-" -> "FAIL" [] q = "~" -> "SOFTFAIL"
      [] q = "?" -> "NEUTRAL" [] OTHER -> "NEUTRAL"

\* faulty variant: no result is recognised as an error
StartsWith_Never(result, prefix) == FALSE

\* result.startswith(prefix) on the results evaluate_spf returns
StartsWith(result, prefix) ==
    CASE prefix = "PERMERROR" ->
            result \in { "PERMERROR (recursion depth exceeded)",
                         "PERMERROR (DNS loop detected)",
                         "PERMERROR (invalid IP address)",
                         "PERMERROR (too many DNS lookups)",
                         "PERMERROR (invalid ip mechanism)",
                         "PERMERROR: MALFORMED TXT",
                         "PERMERROR: MULTIPLE SPF RECORDS" }
      [] prefix = "TEMPEROR" -> FALSE
      [] OTHER -> FALSE

\* ipaddress.ip_address(ip) succeeds
ValidIp(ip) == ip \in { "192.0.2.5", "192.0.2.77", "203.0.113.9", "2001:db8::1" }

\* the leading 24 bits of an address
Prefix24(addr) ==
    CASE addr = "192.0.2.5"   -> "192.0.2"
      [] addr = "192.0.2.77"  -> "192.0.2"
      [] addr = "203.0.113.9" -> "203.0.113"
      [] OTHER                -> "2001:0d"

IsV6(addr) == addr = "2001:db8::1"

\* ip_obj in ipaddress.ip_network(f"{addr}/{length}", strict=False)
ip_matches(addr, cidr, ip_obj) ==
    IF IsV6(addr) # IsV6(ip_obj) THEN FALSE
    ELSE IF cidr = None THEN addr = ip_obj
    ELSE IF cidr = "24" THEN Prefix24(addr) = Prefix24(ip_obj)
    ELSE FALSE

\* ipaddress.ip_network(text, strict=False) of an ip4:/ip6: term: does it raise,
\* and does it hold ip_obj
NetworkValid(text) == text \in { "192.0.2.0/24", "198.51.100.0/24", "2001:db8::/32" }
NetworkHolds(text, ip_obj) == text = "192.0.2.0/24" /\ Prefix24(ip_obj) = "192.0.2"

\* expand_macros(template, ip, domain, mail_from, helo): a template without "%"
\* is returned unchanged; "%{d}" is the normalized current domain
expand_macros(template, ip, domain, mail_from, helo) ==
    IF template = "%{d}" THEN normalize_domain(domain)
    ELSE IF template = "n.%{d}" THEN "n." \o normalize_domain(domain)
    ELSE template

\* name.endswith("." + target_domain) or name = target_domain
NameUnder(name, target_domain) ==
    \/ name = target_domain
    \/ name = "mail.example.com" /\ target_domain = "example.com"

(***************************************************************************)
(* The evaluation state threaded through evaluate_spf, as one record:      *)
(*   stack, seen, spf_lookups, dns_cache, steps, lookups, zone, result.    *)
(* A frame of the stack is one activation of evaluate_spf inside its loop: *)
(*   domain, depth, mechanisms, pos (the term the loop stands at),         *)
(*   redirect_target, exp_domain.                                          *)
(***************************************************************************)
log(m, msg) == [m EXCEPT !.steps = Append(@, msg)]

Top(m) == m.stack[Len(m.stack)]
\* faulty variant: a domain is visited only while its evaluation runs
Pop_Unvisit(m) ==
    [m EXCEPT !.stack = SubSeq(@, 1, Len(@) - 1), !.seen = @ \ { Top(m).domain }]

Pop(m) == [m EXCEPT !.stack = SubSeq(@, 1, Len(@) - 1)]
SetTop(m, f) == [m EXCEPT !.stack[Len(m.stack)] = f]

\* fetch_spf(domain, trace) given the resolver's TXT answer: the record found,
\* or why there is none.  kind is "record", "none" (None) or "permerror".
fetch_spf_value(answer) ==
    LET rrs == answer.rrs
        spf == { i \in 1..Len(rrs) : rrs[i].spf }
    IN  IF ~answer.ok THEN [kind |-> "none", text |-> None, terms |-> << >>]
        ELSE IF \E i \in 1..Len(rrs) : rrs[i].ctl
        THEN [kind |-> "permerror", text |-> "PERMERROR: MALFORMED TXT", terms |-> << >>]
        ELSE IF Cardinality(spf) > 1
        THEN [kind |-> "permerror", text |-> "PERMERROR: MULTIPLE SPF RECORDS", terms |-> << >>]
        ELSE IF spf = { } THEN [kind |-> "none", text |-> None, terms |-> << >>]
        ELSE [kind |-> "record", text |-> "v=spf1", terms |-> rrs[CHOOSE i \in spf : TRUE].terms]

\* the trace line and the resolver query of fetch_spf
fetch_spf_log(m, domain, answer) ==
    LET d == normalize_domain(domain)
    IN  [ log(m, << "TXT lookup for", d >>) EXCEPT !.zone = (d :> answer) @@ @ ]

\* faulty variant: anything but FAIL counts as a match
IncludeMatches_UnlessFail(result) == result # "FAIL"

\* if result == "PASS": the include matched
IncludeMatches(result) == result = "PASS"

\* the caller's side of a nested evaluate_spf that returned `value`: the include
\* branch when the caller stands at a term, the redirect application when its
\* loop is over
RECURSIVE Deliver(_, _)
Deliver(m, value) ==
    IF m.stack = << >> THEN [m EXCEPT !.result = value]
    ELSE LET f == Top(m)
         IN  IF f.pos > Len(f.mechanisms) THEN Deliver(Pop(m), value)
             ELSE IF IncludeMatches(value)
             THEN Deliver(Pop(m), result_from_qualifier(split_qualifier(f.mechanisms[f.pos])))
             ELSE IF StartsWith(value, "PERMERROR") \/ StartsWith(value, "TEMPEROR")
             THEN Deliver(Pop(m), value)
             ELSE SetTop(m, [f EXCEPT !.pos = @ + 1])

\* `return value` of the running activation
Return(m, value) == Deliver(Pop(m), value)

\* `continue`
Continue(m) == SetTop(m, [Top(m) EXCEPT !.pos = @ + 1])

\* evaluate_spf(domain, ip, state, trace, depth, ...) up to its loop
\* faulty variant: the visited set is never consulted
Revisits_Never(m, d) == FALSE

\* if domain in state["seen"]
Revisits(m, d) == d \in m.seen

\* faulty variant: the budget is never enforced
OverBudget_Never(m) == FALSE

Enter(m, domain, ip, depth, answer) ==
    LET d == normalize_domain(domain)
    IN  IF depth > MAX_RECURSION_DEPTH
        THEN Deliver(m, "PERMERROR (recursion depth exceeded)")
        ELSE IF Revisits(m, d) THEN Deliver(m, "PERMERROR (DNS loop detected)")
        ELSE
        LET m1 == log([m EXCEPT !.seen = @ \cup { d }], << "Evaluating SPF for domain", d >>)
        IN  IF ~ValidIp(ip) THEN Deliver(m1, "PERMERROR (invalid IP address)")
            ELSE
            LET m2  == fetch_spf_log(m1, d, answer)
                spf == fetch_spf_value(answer)
            IN  IF spf.kind = "none" THEN Deliver(m2, "NONE")
                ELSE IF spf.kind = "permerror" THEN Deliver(m2, spf.text)
                ELSE [ log(m2, << "SPF record", spf.terms >>) EXCEPT
                         !.stack = Append(@, [ domain |-> d, depth |-> depth,
                                               mechanisms |-> spf.terms, pos |-> 1,
                                               redirect_target |-> None,
                                               exp_domain |-> None ]) ]

\* faulty variant: the term is not counted
Charge_Free(m) == m

\* state["spf_lookups"] += 1; trace["lookups"] = state["spf_lookups"]
Charge(m) == [m EXCEPT !.spf_lookups = @ + 1, !.lookups = m.spf_lookups + 1]

OverBudget(m) == m.spf_lookups > MAX_SPF_LOOKUPS

\* cached_resolve(domain, rtype, trace, dns_cache) given the resolver's outcome
\* faulty variant: the resolver is asked every time and the entry overwritten
cached_resolve_Always(m, domain, rtype, outcome) ==
    LET key == << rtype, domain >>
        m1  == log(m, << "DNS lookup", rtype, domain >>)
    IN  [m1 EXCEPT !.dns_cache = (key :> outcome.rrs) @@ @]

cached_resolve(m, domain, rtype, outcome) ==
    LET key == << rtype, domain >>
    IN  IF key \in DOMAIN m.dns_cache
        THEN log(m, << "DNS cache hit", rtype, domain >>)
        ELSE LET m1 == log(m, << "DNS lookup", rtype, domain >>)
                 m2 == IF outcome.tcp
                       THEN log(m1, << "DNS lookup (TCP fallback)", rtype, domain >>)
                       ELSE m1
             IN  [m2 EXCEPT !.dns_cache = (key :> outcome.rrs) @@ @]

\* resolve_a_aaaa(domain, trace, dns_cache): the evaluation state afterwards
resolve_a_aaaa_state(m, domain, oc) ==
    cached_resolve(cached_resolve(m, domain, "A", oc[<< "A", domain >>]),
                   domain, "AAAA", oc[<< "AAAA", domain >>])

\* resolve_a_aaaa(domain, trace, dns_cache): the addresses returned
resolve_a_aaaa(m, domain, oc) ==
    LET m1 == resolve_a_aaaa_state(m, domain, oc)
    IN  m1.dns_cache[<< "A", domain >>] \o m1.dns_cache[<< "AAAA", domain >>]

(***************************************************************************)
(* The DNS the evaluation runs against.  A TXT answer is [ok, rrs]: ok is  *)
(* FALSE when dns.resolver.resolve raises; a TXT rr is [spf, ctl, terms]:  *)
(* it starts with "v=spf1", it holds a control byte, and its terms.  An    *)
(* A/AAAA/MX/PTR outcome is [rrs, tcp]: the rdata returned (none when both *)
(* attempts raise) and whether only the TCP retry answered.                *)
(***************************************************************************)
MaxTerms == 2

SenderIp == "192.0.2.5"
TopDomain == "example.com"
MailHost == "mail.example.com"
MxHosts == << "mx1.example.com", "mx2.example.com" >>
ReverseName == "5.2.0.192.in-addr.arpa."

\* an MX answer of eleven hosts: the two above and nine more
MoreMxHosts ==
    << "mx03.example.com", "mx04.example.com", "mx05.example.com", "mx06.example.com",
       "mx07.example.com", "mx08.example.com", "mx09.example.com", "mx10.example.com",
       "mx11.example.com" >>
ElevenMxHosts == MxHosts \o MoreMxHosts

\* eleven names, each publishing "v=spf1 ~all"
ElevenNames ==
    << "i01.test", "i02.test", "i03.test", "i04.test", "i05.test", "i06.test",
       "i07.test", "i08.test", "i09.test", "i10.test", "i11.test" >>

\* names made by a macro, fresh at every level: n.example.com, n.n.example.com, ...
\* each publishing "v=spf1 include:n.%{d}"; the resolver knows ChainLength of them
ChainLength == 12
RECURSIVE ChainName(_)
ChainName(i) == IF i = 0 THEN TopDomain ELSE "n." \o ChainName(i - 1)

T(q, name, arg) == [ q |-> q, name |-> name, arg |-> arg, cidr |-> "" ]
TCidr(q, name, arg, cidr) == [ q |-> q, name |-> name, arg |-> arg, cidr |-> cidr ]

Qualifiers == { "", "+", "-", "~", "?" }

\* the terms every position of the record under test ranges over
CoreTerms ==
    { T("", "all", ""), T("-", "all", ""),
      T("", "ip4", "192.0.2.0/24"), T("", "ip4", "198.51.100.0/24"),
      T("", "include", "a.test"), T("-", "include", "a.test"),
      T("", "include", "b.test"),
      T("", "redirect=", "b.test"), T("", "exp=", "b.test"),
      T("", "foo", ""), T("", "a", "") }

\* further terms, tried at the head of a record and right after a non-matching head
ExtraTerms ==
    { T("+", "all", ""), T("~", "all", ""), T("?", "all", ""),
      T("-", "ip4", "192.0.2.0/24"), T("~", "ip4", "192.0.2.0/24"),
      T("", "ip6", "2001:db8::/32"),
      T("", "ip4", "999.0.0.0/8"),
      T("~", "include", "a.test"), T("?", "include", "A.Test."),
      T("", "include", "Example.COM."), T("", "include", "%{d}"),
      T("", "redirect=", "a.test"), T("", "redirect=", "%{d}"),
      T("-", "a", MailHost), TCidr("", "a", "", "24"),
      T("", "mx", ""), T("~", "exists", MailHost),
      T("", "ptr", ""), T("-", "ptr", "a.test") }

Terms == CoreTerms \cup ExtraTerms

SeqsUpTo(S, n) == UNION { [1..k -> S] : k \in 0..n }

Repeat(t, n) == [ i \in 1..n |-> t ]

\* records that spend MAX_SPF_LOOKUPS - 1 or MAX_SPF_LOOKUPS lookups before one more term
PaddedRecords ==
    { Repeat(T("?", "exists", MailHost), k) \o body :
        k \in { MAX_SPF_LOOKUPS - 1, MAX_SPF_LOOKUPS },
        body \in { << >> } \cup { << t >> : t \in Terms } }

ElevenIncludes ==
    [ i \in 1..Len(ElevenNames) |-> T("", "include", ElevenNames[i]) ] \o << T("~", "all", "") >>

ChainRecord == << T("", "include", "n.%{d}") >>

IncludePair == << T("", "include", "a.test"), T("", "include", "b.test"), T("~", "all", "") >>

TopRecords ==
    SeqsUpTo(CoreTerms, MaxTerms)
    \cup { << e >> \o tail : e \in ExtraTerms,
             tail \in { << >>, << T("-", "all", "") >>, << T("", "include", "b.test") >> } }
    \cup { << h, e >> : h \in { T("", "ip4", "198.51.100.0/24"), T("", "include", "a.test") },
                        e \in ExtraTerms }
    \cup PaddedRecords
    \cup { ElevenIncludes, IncludePair, ChainRecord }

\* the records the included names publish
IncludedTerms ==
    { T("", "all", ""), T("-", "all", ""), T("", "ip4", "192.0.2.0/24"),
      T("", "ip4", "999.0.0.0/8"), T("", "include", "b.test"),
      T("", "include", "Example.COM."), T("", "redirect=", "b.test"),
      T("", "a", ""), T("", "foo", "") }

IncludedRecords ==
    SeqsUpTo(IncludedTerms, 1)
    \cup { << T("", "ip4", "198.51.100.0/24"), T("-", "all", "") >>,
           << T("", "include", "b.test"), T("", "all", "") >>,
           << T("", "redirect=", "example.com"), T("", "exists", MailHost) >> }

OtherTxt == [ spf |-> FALSE, ctl |-> FALSE, terms |-> << >> ]
CtlTxt == [ spf |-> FALSE, ctl |-> TRUE, terms |-> << >> ]
SpfTxt(record) == [ spf |-> TRUE, ctl |-> FALSE, terms |-> record ]

TxtFail == [ ok |-> FALSE, rrs |-> << >> ]
\* the query raised for a transient reason (timeout, SERVFAIL)
TxtTimeout == [ ok |-> FALSE, rrs |-> << >>, error |-> "Timeout" ]
TxtOf(record) == [ ok |-> TRUE, rrs |-> << OtherTxt, SpfTxt(record) >> ]

\* answers that hold no single well-formed SPF record
TxtOddities ==
    { TxtFail, TxtTimeout,
      [ ok |-> TRUE, rrs |-> << OtherTxt >> ],
      [ ok |-> TRUE, rrs |-> << CtlTxt >> ],
      [ ok |-> TRUE, rrs |-> << SpfTxt(<< T("-", "all", "") >>), CtlTxt >> ],
      [ ok |-> TRUE, rrs |-> << SpfTxt(<< T("-", "all", "") >>), SpfTxt(<< T("", "all", "") >>) >> ] }

\* what the resolver may answer to a TXT query for `name`
TxtAnswers(name) ==
    IF name = TopDomain THEN TxtOddities \cup { TxtOf(r) : r \in TopRecords }
    ELSE IF name \in { "a.test", "b.test" }
    THEN TxtOddities \cup { TxtOf(r) : r \in IncludedRecords }
    ELSE IF \E i \in 1..Len(ElevenNames) : ElevenNames[i] = name
    THEN { TxtOf(<< T("~", "all", "") >>) }
    ELSE IF \E i \in 1..ChainLength : ChainName(i) = name
    THEN { TxtOf(ChainRecord) }
    ELSE { TxtFail }

Outcome(rrs, tcp) == [ rrs |-> rrs, tcp |-> tcp ]
NoOutcome == Outcome(<< >>, FALSE)

\* what the resolver may answer to an A, AAAA, MX or PTR query
Outcomes(key) ==
    LET rtype == key[1]
        name  == key[2]
    IN  IF rtype = "A" /\ name = MxHosts[1]
        THEN { NoOutcome, Outcome(<< "203.0.113.9" >>, FALSE), Outcome(<< SenderIp >>, FALSE) }
        ELSE IF rtype = "A" /\ name = MxHosts[2]
        THEN { Outcome(<< "203.0.113.9" >>, FALSE), Outcome(<< SenderIp >>, FALSE) }
        ELSE IF rtype = "A" /\ \E i \in 1..Len(MoreMxHosts) : MoreMxHosts[i] = name
        THEN { Outcome(<< "203.0.113.9" >>, FALSE) }
        ELSE IF rtype = "AAAA" /\ \E i \in 1..Len(MoreMxHosts) : MoreMxHosts[i] = name
        THEN { NoOutcome }
        ELSE IF rtype = "A"
        THEN { NoOutcome, Outcome(<< SenderIp >>, FALSE), Outcome(<< "192.0.2.77" >>, FALSE),
               Outcome(<< "203.0.113.9" >>, TRUE) }
        ELSE IF rtype = "AAAA" /\ name \in { MxHosts[1], MxHosts[2] }
        THEN { NoOutcome }
        ELSE IF rtype = "AAAA"
        THEN { NoOutcome, Outcome(<< "2001:db8::1" >>, FALSE) }
        ELSE IF rtype = "MX"
        THEN { NoOutcome, Outcome(<< MxHosts[1] >>, FALSE), Outcome(MxHosts, FALSE),
               Outcome(ElevenMxHosts, FALSE) }
        ELSE { NoOutcome, Outcome(<< MailHost >>, FALSE),
               Outcome(<< "b.test", MailHost >>, TRUE) }

(***************************************************************************)
(* The loop of evaluate_spf: one action per kind of term.  Every action    *)
(* takes the evaluation state as the record Machine and yields the next.   *)
\* the smaller world run_mail_check is checked in: one record walks every kind of term
MailEverything ==
    << T("", "exp=", "b.test"), T("", "ip4", "198.51.100.0/24"), T("", "foo", ""),
       T("", "include", "a.test"), T("", "a", ""), T("", "mx", ""),
       T("", "exists", MailHost), T("", "ptr", ""), T("", "redirect=", "b.test") >>

MailTxtAnswers(name) ==
    IF name = TopDomain
    THEN { TxtFail, TxtOf(<< T("-", "all", "") >>), TxtOf(<< T("", "all", "") >>),
           TxtOf(MailEverything) }
    ELSE IF name = MailHost THEN { TxtFail, TxtOf(<< T("", "all", "") >>) }
    ELSE IF name = "other.test"
    THEN { TxtOf(<< T("", "all", "") >>), TxtOf(<< T("-", "all", "") >>) }
    ELSE IF name = "a.test" THEN { TxtOf(<< T("-", "all", "") >>) }
    ELSE IF name = "b.test" THEN { TxtOf(<< T("~", "all", "") >>) }
    ELSE { TxtFail }

MailOutcomes(key) ==
    IF key[1] = "A" THEN { NoOutcome, Outcome(<< SenderIp >>, FALSE) }
    ELSE IF key[1] = "AAAA" THEN { NoOutcome }
    ELSE IF key[1] = "MX" THEN { Outcome(<< MxHosts[1] >>, FALSE) }
    ELSE { Outcome(<< MailHost >>, FALSE) }


(***************************************************************************)
Machine ==
    [ stack |-> stack, seen |-> seen, spf_lookups |-> spf_lookups,
      dns_cache |-> dns_cache, steps |-> trace.steps, lookups |-> trace.lookups,
      zone |-> zone, result |-> spf_result ]

\* the variables after a step that leaves the evaluation in state m
\* (a handler binds its locals with \E over a one-element set: each is then
\* computed once, also where the step is looked at for enabledness)
Becomes(m) ==
    \E n \in { m } :
       /\ stack' = n.stack
       /\ seen' = n.seen
       /\ spf_lookups' = n.spf_lookups
       /\ dns_cache' = n.dns_cache
       /\ trace' = [ steps |-> n.steps, lookups |-> n.lookups ]
       /\ zone' = n.zone
       /\ spf_result' = n.result
       /\ pc' = IF n.stack = << >> THEN "spf_done" ELSE "spf_loop"
       /\ UNCHANGED << request, dmarc_dns, dmarc_in, dmarc, dkim_info, report >>

\* the loop stands at a term
AtTerm ==
    /\ pc = "spf_loop"
    /\ stack # << >>
    /\ stack[Len(stack)].pos <= Len(stack[Len(stack)].mechanisms)

Frame == stack[Len(stack)]
Term == Frame.mechanisms[Frame.pos]

\* qualifier, mech = split_qualifier(raw_mech); log "Checking mechanism"
Checking == log(Machine, << "Checking mechanism", Term >>)

ExpandArg(template) ==
    expand_macros(template, request.ip, Frame.domain, request.mail_from, request.helo)

Matched(m) == Return(m, result_from_qualifier(split_qualifier(Term)))

IdleDmarc == [ dmarc_present |-> FALSE ]
NoRequest == [ entry |-> "none" ]

IdleSpf ==
    /\ zone = << >>
    /\ stack = << >>
    /\ seen = { }
    /\ spf_lookups = 0
    /\ dns_cache = << >>
    /\ trace = [ steps |-> << >>, lookups |-> 0 ]
    /\ spf_result = None

\* the TXT answer to a query for `name`: the one given before, if any
AllowedTxt(name) ==
    IF name \in DOMAIN zone THEN { zone[name] }
    ELSE IF request.entry = "run_mail_check" THEN MailTxtAnswers(name)
    ELSE TxtAnswers(name)

ResolverOutcomes(key) ==
    IF request.entry = "run_mail_check" THEN MailOutcomes(key) ELSE Outcomes(key)

\* the outcome of a query cached_resolve may send: none is needed on a cache hit
Needed(m, key) ==
    IF key \in DOMAIN m.dns_cache THEN { NoOutcome } ELSE ResolverOutcomes(key)

AKey(name) == << "A", name >>
AAAAKey(name) == << "AAAA", name >>

\* the A and AAAA keys resolve_a_aaaa asks for, for every name of an answer
AddressKeys(names) ==
    { AKey(names[i]) : i \in 1..Len(names) } \cup { AAAAKey(names[i]) : i \in 1..Len(names) }

\* the top-level call evaluate_spf(domain, ip, trace=.., mail_from=.., helo=..)
CallEvaluateSpf ==
    /\ pc = "spf_call"
    /\ \E answer \in AllowedTxt(normalize_domain(request.domain)) :
          Becomes(Enter(Machine, request.domain, request.ip, 0, answer))

ExpModifier ==
    /\ AtTerm
    /\ Term.name = "exp="
    /\ Becomes(Continue(SetTop(Checking,
           [Frame EXCEPT !.exp_domain = normalize_domain(ExpandArg(Term.arg))])))

RedirectModifier ==
    /\ AtTerm
    /\ Term.name = "redirect="
    /\ \E m1 \in { Charge(Checking) } :
           IF OverBudget(m1)
           THEN Becomes(Return(m1, "PERMERROR (too many DNS lookups)"))
           ELSE Becomes(Continue(SetTop(m1,
                  [Frame EXCEPT !.redirect_target = normalize_domain(ExpandArg(Term.arg))])))

IpMechanism ==
    /\ AtTerm
    /\ Term.name \in { "ip4", "ip6" }
    /\ IF ~NetworkValid(Term.arg)
       THEN Becomes(Return(Checking, "PERMERROR (invalid ip mechanism)"))
       ELSE IF NetworkHolds(Term.arg, request.ip)
       THEN Becomes(Matched(Checking))
       ELSE Becomes(Continue(Checking))

IncludeMechanism ==
    /\ AtTerm
    /\ Term.name = "include"
    /\ \E m1 \in { Charge(Checking) }, target \in { normalize_domain(ExpandArg(Term.arg)) } :
           IF OverBudget(m1)
           THEN Becomes(Return(m1, "PERMERROR (too many DNS lookups)"))
           ELSE \E answer \in AllowedTxt(target) :
                   Becomes(Enter(m1, target, request.ip, Frame.depth + 1, answer))

\* _parse_mechanism_target(mech, prefix, default_domain, ...)
_parse_mechanism_target(term, default_domain) ==
    LET expanded == ExpandArg(term.arg)
    IN  << IF term.arg # "" /\ expanded # "" THEN normalize_domain(expanded)
           ELSE default_domain,
           IF term.cidr = "" THEN None ELSE term.cidr >>

AnyMatch(ips, cidr) == \E i \in 1..Len(ips) : ip_matches(ips[i], cidr, request.ip)

AMechanism ==
    /\ AtTerm
    /\ Term.name = "a"
    /\ \E m1     \in { Charge(Checking) },
          target \in { _parse_mechanism_target(Term, Frame.domain)[1] },
          cidr   \in { _parse_mechanism_target(Term, Frame.domain)[2] } :
           IF OverBudget(m1)
           THEN Becomes(Return(m1, "PERMERROR (too many DNS lookups)"))
           ELSE \E oa \in Needed(m1, AKey(target)), oaaaa \in Needed(m1, AAAAKey(target)) :
                  LET oc == (AKey(target) :> oa) @@ (AAAAKey(target) :> oaaaa)
                      m2 == resolve_a_aaaa_state(m1, target, oc)
                  IN  IF AnyMatch(resolve_a_aaaa(m1, target, oc), cidr)
                      THEN Becomes(Matched(m2))
                      ELSE Becomes(Continue(m2))

\* the loop over the MX hosts: [m |-> state afterwards, hit |-> an address matched]
RECURSIVE MxScan(_, _, _, _, _)
MxScan(m, hosts, i, cidr, oc) ==
    IF i > Len(hosts) THEN [ m |-> m, hit |-> FALSE ]
    ELSE IF AnyMatch(resolve_a_aaaa(m, hosts[i], oc), cidr)
    THEN [ m |-> resolve_a_aaaa_state(m, hosts[i], oc), hit |-> TRUE ]
    ELSE MxScan(resolve_a_aaaa_state(m, hosts[i], oc), hosts, i + 1, cidr, oc)

MxMechanism ==
    /\ AtTerm
    /\ Term.name = "mx"
    /\ \E m1     \in { Charge(Checking) },
          target \in { _parse_mechanism_target(Term, Frame.domain)[1] },
          cidr   \in { _parse_mechanism_target(Term, Frame.domain)[2] } :
           IF OverBudget(m1)
           THEN Becomes(Return(m1, "PERMERROR (too many DNS lookups)"))
           ELSE \E omx \in Needed(m1, << "MX", target >>),
                   o1 \in Needed(m1, AKey(MxHosts[1])), o1a \in Needed(m1, AAAAKey(MxHosts[1])),
                   o2 \in Needed(m1, AKey(MxHosts[2])), o2a \in Needed(m1, AAAAKey(MxHosts[2])) :
                  LET oc == (AKey(MxHosts[1]) :> o1) @@ (AAAAKey(MxHosts[1]) :> o1a)
                            @@ (AKey(MxHosts[2]) :> o2) @@ (AAAAKey(MxHosts[2]) :> o2a)
                            @@ [ key \in AddressKeys(MoreMxHosts) |->
                                   CHOOSE o \in Needed(m1, key) : TRUE ]
                      \* resolve_mx(target, trace, dns_cache)
                      m2 == cached_resolve(m1, target, "MX", omx)
                      r  == MxScan(m2, m2.dns_cache[<< "MX", target >>], 1, cidr, oc)
                  IN  IF r.hit THEN Becomes(Matched(r.m)) ELSE Becomes(Continue(r.m))

ExistsMechanism ==
    /\ AtTerm
    /\ Term.name = "exists"
    /\ \E m1 \in { Charge(Checking) }, target \in { normalize_domain(ExpandArg(Term.arg)) } :
           IF OverBudget(m1)
           THEN Becomes(Return(m1, "PERMERROR (too many DNS lookups)"))
           ELSE \E oa \in Needed(m1, AKey(target)), oaaaa \in Needed(m1, AAAAKey(target)) :
                  LET oc == (AKey(target) :> oa) @@ (AAAAKey(target) :> oaaaa)
                      \* check_exists(target, trace, dns_cache)
                      m2 == log(m1, << "EXISTS check", target >>)
                      m3 == resolve_a_aaaa_state(m2, target, oc)
                  IN  IF Len(resolve_a_aaaa(m2, target, oc)) > 0
                      THEN Becomes(Matched(m3))
                      ELSE Becomes(Continue(m3))

\* the loop over the PTR names
RECURSIVE PtrScan(_, _, _, _, _)
PtrScan(m, names, i, target_domain, oc) ==
    IF i > Len(names) THEN [ m |-> m, hit |-> FALSE ]
    ELSE IF Truthy(target_domain) /\ ~NameUnder(names[i], target_domain)
    THEN PtrScan(m, names, i + 1, target_domain, oc)
    ELSE IF \E k \in 1..Len(resolve_a_aaaa(m, names[i], oc)) :
               resolve_a_aaaa(m, names[i], oc)[k] = request.ip
    THEN [ m |-> resolve_a_aaaa_state(m, names[i], oc), hit |-> TRUE ]
    ELSE PtrScan(resolve_a_aaaa_state(m, names[i], oc), names, i + 1, target_domain, oc)

PtrNames == { MailHost, "b.test" }

PtrMechanism ==
    /\ AtTerm
    /\ Term.name = "ptr"
    /\ \E m1 \in { Charge(log(Checking, << "Warning: ptr mechanism is deprecated" >>)) },
          target_domain \in { IF Term.arg = "" THEN Frame.domain
                              ELSE normalize_domain(ExpandArg(Term.arg)) } :
           IF OverBudget(m1)
           THEN Becomes(Return(m1, "PERMERROR (too many DNS lookups)"))
           ELSE \E optr \in Needed(m1, << "PTR", ReverseName >>),
                   oc \in [ { AKey(n) : n \in PtrNames } \cup { AAAAKey(n) : n \in PtrNames }
                            -> UNION { ResolverOutcomes(AKey(n)) \cup ResolverOutcomes(AAAAKey(n)) :
                                       n \in PtrNames } ] :
                  /\ \A key \in DOMAIN oc : oc[key] \in Needed(m1, key)
                  /\ LET \* resolve_ptr(ip_obj, trace, dns_cache)
                         m2 == cached_resolve(m1, ReverseName, "PTR", optr)
                         r  == PtrScan(m2, m2.dns_cache[<< "PTR", ReverseName >>], 1,
                                       target_domain, oc)
                     IN  IF r.hit THEN Becomes(Matched(r.m)) ELSE Becomes(Continue(r.m))

AllMechanism ==
    /\ AtTerm
    /\ Term.name = "all"
    /\ LET result == result_from_qualifier(split_qualifier(Term))
       IN  IF result = "FAIL" /\ Truthy(Frame.exp_domain)
           THEN \E answer \in AllowedTxt(Frame.exp_domain) :
                  LET m1      == fetch_spf_log(Checking, Frame.exp_domain, answer)
                      exp_txt == fetch_spf_value(answer)
                  IN  IF exp_txt.kind = "record"
                      THEN Becomes(Return(log(m1, << "Explanation", exp_txt.terms >>), result))
                      ELSE Becomes(Return(m1, result))
           ELSE Becomes(Return(Checking, result))

KnownNames ==
    { "exp=", "redirect=", "ip4", "ip6", "include", "a", "mx", "exists", "ptr", "all" }

UnknownMechanism ==
    /\ AtTerm
    /\ Term.name \notin KnownNames
    /\ Becomes(Continue(log(Checking, << "Unknown mechanism ignored", Term >>)))

\* faulty variant: a recorded redirect is never applied
RedirectApplies_Never(f) == FALSE

\* if redirect_target and not matched
RedirectApplies(f) == Truthy(f.redirect_target)

\* after the loop: apply the redirect, or NEUTRAL
EndOfRecord ==
    /\ pc = "spf_loop"
    /\ stack # << >>
    /\ Frame.pos > Len(Frame.mechanisms)
    /\ IF RedirectApplies(Frame)
       THEN \E answer \in AllowedTxt(Frame.redirect_target) :
              Becomes(Enter(log(Machine, << "Redirecting to", Frame.redirect_target >>),
                            Frame.redirect_target, request.ip, Frame.depth + 1, answer))
       ELSE Becomes(Return(Machine, "NEUTRAL"))

SpfRequests ==
    { [ entry |-> "evaluate_spf", domain |-> TopDomain, ip |-> ip,
        mail_from |-> None, helo |-> None ] : ip \in { SenderIp, "not-an-ip" } }

Init ==
    /\ pc = "spf_call"
    /\ request \in SpfRequests
    /\ IdleSpf
    /\ dmarc_dns = << >>
    /\ dmarc_in = << >>
    /\ dmarc = IdleDmarc
    /\ dkim_info = << >>
    /\ report = << >>

Next ==
    \/ CallEvaluateSpf
    \/ ExpModifier
    \/ RedirectModifier
    \/ IpMechanism
    \/ IncludeMechanism
    \/ AMechanism
    \/ MxMechanism
    \/ ExistsMechanism
    \/ PtrMechanism
    \/ AllMechanism
    \/ UnknownMechanism
    \/ EndOfRecord

Spec == Init /\ [][Next]_vars

(***************************************************************************)
(* Properties of the SPF evaluation                                        *)
(***************************************************************************)
\* the mapping the specification gives from a qualifier to a result
QualifierResult(q) ==
    CASE q \in { "", "+" } -> "PASS"
      [] q = "-" -> "FAIL"
      [] q = "~" -> "SOFTFAIL"
      [] q = "?" -> "NEUTRAL"

ChargingNames == { "include", "redirect=", "a", "mx", "exists", "ptr" }

SpfDone == pc = "spf_done"

WithinBudget == spf_lookups < MAX_SPF_LOOKUPS

\* the addresses the cache holds for a name once the step is over
CachedAfter(name) ==
    (IF AKey(name) \in DOMAIN dns_cache' THEN dns_cache'[AKey(name)] ELSE << >>)
    \o (IF AAAAKey(name) \in DOMAIN dns_cache' THEN dns_cache'[AAAAKey(name)] ELSE << >>)

HostsAfter(key) == IF key \in DOMAIN dns_cache' THEN dns_cache'[key] ELSE << >>

TermTarget == _parse_mechanism_target(Term, Frame.domain)[1]
TermCidr == _parse_mechanism_target(Term, Frame.domain)[2]

\* the term the loop stands at matches in this step, by its own test
DirectMatch ==
    /\ AtTerm
    /\ \/ Term.name = "all"
       \/ Term.name \in { "ip4", "ip6" } /\ NetworkValid(Term.arg)
            /\ NetworkHolds(Term.arg, request.ip)
       \/ Term.name = "a" /\ WithinBudget /\ AnyMatch(CachedAfter(TermTarget), TermCidr)
       \/ Term.name = "exists" /\ WithinBudget
            /\ Len(CachedAfter(normalize_domain(ExpandArg(Term.arg)))) > 0
       \/ Term.name = "mx" /\ WithinBudget
            /\ \E i \in 1..Len(HostsAfter(<< "MX", TermTarget >>)) :
                  AnyMatch(CachedAfter(HostsAfter(<< "MX", TermTarget >>)[i]), TermCidr)

\* the names and keys a term may query
TermNames == IF Term.name = "all" /\ Truthy(Frame.exp_domain) THEN { Frame.exp_domain } ELSE { }

TermKeys ==
    IF Term.name = "a" THEN { AKey(TermTarget), AAAAKey(TermTarget) }
    ELSE IF Term.name = "exists"
    THEN { AKey(normalize_domain(ExpandArg(Term.arg))),
           AAAAKey(normalize_domain(ExpandArg(Term.arg))) }
    ELSE IF Term.name = "mx"
    THEN { << "MX", TermTarget >> }
         \cup AddressKeys(ElevenMxHosts)
    ELSE { }

TermCost == IF Term.name \in ChargingNames THEN 1 ELSE 0

\* a step keeps to the textual order: a frame's record is fixed and its
\* position stays or advances by one
InTextualOrder ==
    \A i \in 1..Len(stack) :
       i <= Len(stack') =>
          /\ stack'[i].mechanisms = stack[i].mechanisms
          /\ stack'[i].pos \in { stack[i].pos, stack[i].pos + 1 }
          /\ i < Len(stack) => stack'[i].pos = stack[i].pos \/ Len(stack') = i

\* the frame below the top stands at an include term
ParentAtInclude ==
    /\ Len(stack) >= 2
    /\ stack[Len(stack) - 1].pos <= Len(stack[Len(stack) - 1].mechanisms)

ParentTerm == stack[Len(stack) - 1].mechanisms[stack[Len(stack) - 1].pos]

C2_Step ==
    /\ stack # << >> => InTextualOrder
    /\ DirectMatch =>
          /\ Len(stack') < Len(stack)
          /\ Len(stack) = 1 => SpfDone' /\ spf_result' = QualifierResult(Term.q)
          /\ ParentAtInclude /\ QualifierResult(Term.q) = "PASS" =>
                /\ Len(stack') < Len(stack) - 1
                /\ Len(stack) = 2 => SpfDone' /\ spf_result' = QualifierResult(ParentTerm.q)
          /\ spf_lookups' = spf_lookups + TermCost
          /\ DOMAIN zone' \ DOMAIN zone \subseteq TermNames
          /\ DOMAIN dns_cache' \ DOMAIN dns_cache \subseteq TermKeys
    /\ SpfDone => UNCHANGED vars

\* C2: the terms of a record are walked in textual order; the first term
\* that matches ends the evaluation of its record with the result mapped from
\* its qualifier, and the matching step charges and queries for that term only
C2_FirstMatchWins == [][C2_Step]_vars

\* include:a.test include:b.test ~all with a.test passing: b.test was never asked for
C2_Witness ==
    /\ SpfDone
    /\ TopDomain \in DOMAIN zone
    /\ spf_result = "PASS"
    /\ zone[TopDomain] = TxtOf(IncludePair)
    /\ "a.test" \in DOMAIN zone
    /\ "b.test" \notin DOMAIN zone
    /\ trace.lookups = 1

\* C3: a finished evaluation reports at most MAX_SPF_LOOKUPS lookups or is
\* PERMERROR (too many DNS lookups); the one counter is charged once by each
\* include, redirect, a, mx, exists and ptr term and by nothing else
C3_Step ==
    /\ AtTerm => spf_lookups' = spf_lookups + TermCost
    /\ ~AtTerm => spf_lookups' = spf_lookups
    /\ trace'.lookups = spf_lookups'
    /\ SpfDone' => \/ trace'.lookups <= MAX_SPF_LOOKUPS
                   \/ spf_result' = "PERMERROR (too many DNS lookups)"

C3_LookupBudget == [][C3_Step]_vars

C3_Witness ==
    /\ SpfDone
    /\ TopDomain \in DOMAIN zone
    /\ zone[TopDomain] = TxtOf(ElevenIncludes)
    /\ spf_result = "PERMERROR (too many DNS lookups)"
    /\ trace.lookups = MAX_SPF_LOOKUPS + 1
    /\ \A i \in 1..MAX_SPF_LOOKUPS : ElevenNames[i] \in seen

\* the domains the trace records an evaluation of
RECURSIVE EvaluatedCount(_, _)
EvaluatedCount(steps, d) ==
    IF steps = << >> THEN 0
    ELSE (IF steps[1] = << "Evaluating SPF for domain", d >> THEN 1 ELSE 0)
         + EvaluatedCount(Tail(steps), d)

\* an include or redirect is about to evaluate `target`
Reenters(target) ==
    /\ pc = "spf_loop"
    /\ stack # << >>
    /\ target \in seen
    /\ \/ AtTerm /\ Term.name = "include" /\ WithinBudget
            /\ target = normalize_domain(ExpandArg(Term.arg))
       \/ ~AtTerm /\ Truthy(Frame.redirect_target) /\ target = Frame.redirect_target

C4_Step ==
    \A target \in seen :
       Reenters(target) => SpfDone' /\ spf_result' = "PERMERROR (DNS loop detected)"
                           /\ zone' = zone

\* C4: no domain is evaluated twice in one evaluation; an include or redirect
\* to a domain already visited ends the whole evaluation with PERMERROR (loop)
C4_NoDomainTwice ==
    /\ [][C4_Step]_vars
    /\ [](\A d \in seen : EvaluatedCount(trace.steps, d) = 1)

\* a record at example.com that includes example.com
C4_Witness ==
    /\ SpfDone
    /\ TopDomain \in DOMAIN zone
    /\ spf_result = "PERMERROR (DNS loop detected)"
    /\ zone[TopDomain] \in { TxtOf(<< T("", "include", "%{d}") >>),
                             TxtOf(<< T("", "include", "Example.COM."), T("-", "all", "") >>) }
    /\ seen = { TopDomain }

\* the value the frame on top returns in this step, when the state shows it
ReturnsValue(v) ==
    /\ pc = "spf_loop"
    /\ stack # << >>
    /\ \/ DirectMatch /\ v = QualifierResult(Term.q)
       \/ ~AtTerm /\ ~Truthy(Frame.redirect_target) /\ v = "NEUTRAL"

\* the include term on top finds nothing published at its target
IncludesNothing ==
    /\ AtTerm
    /\ Term.name = "include"
    /\ WithinBudget
    /\ ValidIp(request.ip)
    /\ normalize_domain(ExpandArg(Term.arg)) \notin seen
    /\ fetch_spf_value(zone'[normalize_domain(ExpandArg(Term.arg))]).kind = "none"

ParentContinues(n) ==
    /\ Len(stack') = n
    /\ stack'[n].pos = stack[n].pos + 1
    /\ pc' = "spf_loop"

C5_Step ==
    /\ \A v \in { "PASS", "FAIL", "SOFTFAIL", "NEUTRAL" } :
          ReturnsValue(v) /\ ParentAtInclude =>
             IF v = "PASS"
             THEN /\ Len(stack') < Len(stack) - 1
                  /\ Len(stack) = 2 => SpfDone' /\ spf_result' = QualifierResult(ParentTerm.q)
             ELSE ParentContinues(Len(stack) - 1)
    /\ IncludesNothing => ParentContinues(Len(stack))

\* C5: an include matches exactly when the nested evaluation returns PASS, and
\* the result is then the one of the include's own qualifier; on FAIL,
\* SOFTFAIL, NEUTRAL or NONE the parent goes on with its next term
C5_IncludeMatchesOnPass == [][C5_Step]_vars

\* -include:a.test with a.test passing gives FAIL
C5_Witness ==
    /\ SpfDone
    /\ TopDomain \in DOMAIN zone
    /\ spf_result = "FAIL"
    /\ zone[TopDomain] = TxtOf(<< T("-", "include", "a.test") >>)
    /\ "a.test" \in DOMAIN zone
    /\ zone["a.test"] = TxtOf(<< T("", "all", "") >>)

\* C12: a term whose mechanism name is unknown, reached before any match, ends
\* the evaluation with PERMERROR
C12_UnknownMechanismIsPermerror ==
    [][ (AtTerm /\ Term.name \notin KnownNames) =>
           (SpfDone' /\ StartsWith(spf_result', "PERMERROR")) ]_vars

\* the lines this step adds to the trace
NewSteps == { trace'.steps[j] : j \in (Len(trace.steps) + 1)..Len(trace'.steps) }

\* the loop of the frame on top is over and it recorded a redirect
AtEndWithRedirect ==
    /\ pc = "spf_loop"
    /\ stack # << >>
    /\ ~AtTerm
    /\ Truthy(Frame.redirect_target)

\* the frame below the top is applying its redirect
ParentAtRedirect ==
    /\ Len(stack) >= 2
    /\ stack[Len(stack) - 1].pos > Len(stack[Len(stack) - 1].mechanisms)

\* no frame has walked past an `all`
NoAllBehind ==
    \A i \in 1..Len(stack) :
       \A k \in 1..Len(stack[i].mechanisms) :
          k < stack[i].pos => stack[i].mechanisms[k].name # "all"

C13_Step ==
    /\ (\E t \in NewSteps : t[1] = "Redirecting to") <=> AtEndWithRedirect
    /\ AtEndWithRedirect => << "Redirecting to", Frame.redirect_target >> \in NewSteps
    /\ DirectMatch =>
          \A t \in NewSteps : t[1] \notin { "Redirecting to", "Evaluating SPF for domain" }
    /\ \A v \in { "PASS", "FAIL", "SOFTFAIL", "NEUTRAL" } :
          ReturnsValue(v) /\ ParentAtRedirect =>
             /\ Len(stack') < Len(stack) - 1
             /\ Len(stack) = 2 => SpfDone' /\ spf_result' = v

\* C13: a redirect= is applied only once the loop of its record is over with no
\* match and no `all` met, wherever it stands in the record; the result of the
\* record is then the result of the target, and a match never evaluates the target
C13_RedirectOnlyWithoutMatch ==
    /\ [][C13_Step]_vars
    /\ []NoAllBehind

\* redirect=b.test written before a term that does not match: b.test decides
C13_Witness ==
    /\ SpfDone
    /\ TopDomain \in DOMAIN zone
    /\ zone[TopDomain] = TxtOf(<< T("", "redirect=", "b.test"), T("", "ip4", "198.51.100.0/24") >>)
    /\ "b.test" \in DOMAIN zone
    /\ zone["b.test"] = TxtOf(<< T("-", "all", "") >>)
    /\ spf_result = "FAIL"
    /\ \E j \in 1..Len(trace.steps) : trace.steps[j] = << "Redirecting to", "b.test" >>

\* the TXT answer for the evaluated domain came and holds no SPF record
AnswerWithoutSpf ==
    /\ TopDomain \in DOMAIN zone
    /\ zone[TopDomain].ok
    /\ \A i \in 1..Len(zone[TopDomain].rrs) : ~zone[TopDomain].rrs[i].spf

\* C14: with a valid sender IP, a domain whose TXT answer holds no record
\* starting with v=spf1 evaluates to NONE, whatever else the answer holds
C14_NoSpfRecordIsNone ==
    (SpfDone /\ ValidIp(request.ip) /\ AnswerWithoutSpf) => spf_result = "NONE"

\* C18: a transient DNS failure while the SPF record of the evaluated domain
\* is fetched gives TEMPERROR, never NONE
C18_TransientIsTemperror ==
    (SpfDone /\ ValidIp(request.ip) /\ TopDomain \in DOMAIN zone /\ zone[TopDomain] = TxtTimeout)
       => spf_result = "TEMPERROR"

\* the redirect of the top-level record is applied to a domain not yet
\* visited whose TXT answer holds no SPF record at all
RedirectFindsNothing ==
    /\ AtEndWithRedirect
    /\ Len(stack) = 1
    /\ ValidIp(request.ip)
    /\ Frame.redirect_target \notin seen
    /\ fetch_spf_value(zone'[Frame.redirect_target]).kind = "none"
    /\ zone'[Frame.redirect_target] # TxtTimeout

\* C20: an applied redirect= whose target resolves to no SPF record gives
\* PERMERROR, not NONE
C20_RedirectToNothingIsPermerror ==
    [][ RedirectFindsNothing => (SpfDone' /\ StartsWith(spf_result', "PERMERROR")) ]_vars

IncludeTarget == normalize_domain(ExpandArg(Term.arg))

\* the evaluation nested in an include ends in this step with the error e
NestedEndsInError(e) ==
    /\ AtTerm
    /\ ValidIp(request.ip)
    /\ \/ /\ ParentAtInclude
          /\ Term.name \in ChargingNames
          /\ ~WithinBudget
          /\ e = "PERMERROR (too many DNS lookups)"
       \/ /\ ParentAtInclude
          /\ Term.name \in { "ip4", "ip6" }
          /\ ~NetworkValid(Term.arg)
          /\ e = "PERMERROR (invalid ip mechanism)"
       \/ /\ Term.name = "include"
          /\ WithinBudget
          /\ IncludeTarget \in seen
          /\ e = "PERMERROR (DNS loop detected)"
       \/ /\ Term.name = "include"
          /\ WithinBudget
          /\ IncludeTarget \notin seen
          /\ fetch_spf_value(zone'[IncludeTarget]).kind = "permerror"
          /\ e = fetch_spf_value(zone'[IncludeTarget]).text

SpfErrors ==
    { "PERMERROR (too many DNS lookups)", "PERMERROR (invalid ip mechanism)",
      "PERMERROR (DNS loop detected)", "PERMERROR: MALFORMED TXT",
      "PERMERROR: MULTIPLE SPF RECORDS" }

\* C21: when the evaluation nested in an include ends in an error, the parent
\* stops at that include and the evaluation ends in this step with the same
\* error, verbatim, so that no later term of the parent is evaluated
C21_IncludeErrorPropagates ==
    [][ \A e \in SpfErrors :
          NestedEndsInError(e) =>
             /\ SpfDone'
             /\ spf_result' = e ]_vars

\* include:a.test all, with a.test publishing an invalid ip4 network
C21_Witness ==
    /\ SpfDone
    /\ TopDomain \in DOMAIN zone
    /\ zone[TopDomain] = TxtOf(<< T("", "include", "a.test"), T("", "all", "") >>)
    /\ "a.test" \in DOMAIN zone
    /\ zone["a.test"] = TxtOf(<< T("", "ip4", "999.0.0.0/8") >>)
    /\ spf_result = "PERMERROR (invalid ip mechanism)"

\* every query the term at hand can make is already in the cache
AnsweredFromCache ==
    /\ AtTerm
    /\ \/ /\ Term.name \in { "a", "exists" }
          /\ TermKeys \subseteq DOMAIN dns_cache
       \/ /\ Term.name = "mx"
          /\ << "MX", TermTarget >> \in DOMAIN dns_cache
          /\ AddressKeys(dns_cache[<< "MX", TermTarget >>]) \subseteq DOMAIN dns_cache
       \/ /\ Term.name = "ptr"
          /\ << "PTR", ReverseName >> \in DOMAIN dns_cache
          /\ AddressKeys(dns_cache[<< "PTR", ReverseName >>]) \subseteq DOMAIN dns_cache

\* C22: an a, mx, exists or ptr term whose queries are all answered from the
\* cache leaves the lookup counter unchanged, and so cannot end the evaluation
\* with PERMERROR (too many DNS lookups)
C22_CacheHitsAreFree ==
    [][ AnsweredFromCache =>
          /\ spf_lookups' = spf_lookups
          /\ spf_result' # "PERMERROR (too many DNS lookups)" ]_vars

\* C23: reading a redirect= term leaves the lookup counter unchanged and cannot
\* end the evaluation with PERMERROR (too many DNS lookups); the counter grows
\* by one in the step that applies the redirect
C23_RedirectChargedWhenApplied ==
    [][ /\ (AtTerm /\ Term.name = "redirect=") =>
             /\ spf_lookups' = spf_lookups
             /\ spf_result' # "PERMERROR (too many DNS lookups)"
        /\ AtEndWithRedirect => spf_lookups' = spf_lookups + 1 ]_vars

\* the trace line `<what>: <TYPE> <NAME>` of a key
IsLine(t, what, key) == t[1] = what /\ Len(t) = 3 /\ t[2] = key[1] /\ t[3] = key[2]

\* how many times the resolver was asked for a key, by the trace
RECURSIVE Queried(_, _)
Queried(steps, key) ==
    IF steps = << >> THEN 0
    ELSE (IF IsLine(Head(steps), "DNS lookup", key) THEN 1 ELSE 0) + Queried(Tail(steps), key)

C24_Step ==
    /\ \A key \in DOMAIN dns_cache :
          key \in DOMAIN dns_cache' /\ dns_cache'[key] = dns_cache[key]
    /\ \A key \in DOMAIN dns_cache' : Queried(trace'.steps, key) = 1
    /\ \A t \in NewSteps :
          /\ t[1] = "DNS lookup" => << t[2], t[3] >> \in DOMAIN dns_cache' \ DOMAIN dns_cache
          /\ t[1] = "DNS cache hit" => << t[2], t[3] >> \in DOMAIN dns_cache'

\* C24: the resolver is asked at most once for each (type, name); an entry of
\* the cache, an empty one included, is never removed or changed; a request
\* for a stored key logs `DNS cache hit` and no `DNS lookup`
C24_CacheAsksOnce == [][C24_Step]_vars

\* a cache hit on a stored empty answer
C24_Witness ==
    \E key \in DOMAIN dns_cache :
       /\ dns_cache[key] = << >>
       /\ \E i \in 1..Len(trace.steps) : IsLine(trace.steps[i], "DNS cache hit", key)

\* the hosts of the MX answer the mx term at hand works on
MxAnswer == HostsAfter(<< "MX", TermTarget >>)

\* the names whose addresses were asked for in this step
NamesResolved ==
    { t[3] : t \in { u \in NewSteps : u[1] \in { "DNS lookup", "DNS cache hit" } /\ u[2] = "A" } }

\* C25: an mx term whose MX answer holds more than 10 hosts ends the
\* evaluation with PERMERROR, and no mx term resolves more than 10 MX hosts
C25_MxHostLimit ==
    [][ (AtTerm /\ Term.name = "mx" /\ WithinBudget) =>
          /\ Len(MxAnswer) > 10 => SpfDone' /\ StartsWith(spf_result', "PERMERROR")
          /\ Cardinality(NamesResolved) <= 10 ]_vars

\* the terms of the record under test, once it was fetched
TopTerms == IF TopDomain \in DOMAIN zone THEN fetch_spf_value(zone[TopDomain]).terms ELSE << >>

\* the exp= targets the record under test carries, wherever they stand
ExpTargets ==
    { normalize_domain(TopTerms[i].arg) : i \in { j \in 1..Len(TopTerms) : TopTerms[j].name = "exp=" } }

Explained == \E j \in 1..Len(trace.steps) : trace.steps[j][1] = "Explanation"

\* the TXT of an exp= target was asked for and gave no record
ExpUnavailable ==
    \E d \in ExpTargets : d \in DOMAIN zone /\ fetch_spf_value(zone[d]).kind # "record"

\* C26: a final FAIL of a record that carries exp= has the explanation in the
\* trace unless the TXT of the target could not be fetched, whichever
\* mechanism produced the FAIL; any other result has no explanation
C26_ExplanationOnFail ==
    SpfDone =>
       /\ (spf_result = "FAIL" /\ ExpTargets # { }) => (Explained \/ ExpUnavailable)
       /\ spf_result # "FAIL" => ~Explained

\* the domains whose evaluation is still running
Running == { stack[i].domain : i \in 1..Len(stack) }

C27_Step ==
    /\ seen \subseteq seen'
    /\ \A target \in seen \ Running :
          Reenters(target) => SpfDone' /\ spf_result' = "PERMERROR (DNS loop detected)"

\* C27: the visited set is one for the whole evaluation and only grows, and
\* every running domain is in it; an include or redirect to a domain whose
\* evaluation is already over, so that there is no cycle, still ends the
\* evaluation with PERMERROR (DNS loop detected)
C27_VisitedIsPerEvaluation ==
    /\ [][C27_Step]_vars
    /\ [](Running \subseteq seen)

\* include:a.test include:b.test, where a.test includes b.test and b.test fails
C27_Witness ==
    /\ SpfDone
    /\ spf_result = "PERMERROR (DNS loop detected)"
    /\ TopDomain \in DOMAIN zone
    /\ zone[TopDomain] = TxtOf(<< T("", "include", "a.test"), T("", "include", "b.test") >>)
    /\ "a.test" \in DOMAIN zone
    /\ zone["a.test"] = TxtOf(<< T("", "include", "b.test") >>)
    /\ "b.test" \in DOMAIN zone
    /\ zone["b.test"] = TxtOf(<< T("-", "all", "") >>)

\* the interpreter runs the call to its end: a step that can be taken is taken
SpecFair == Init /\ [][Next]_vars /\ WF_vars(Next)

\* how many evaluations of a domain were started, by the trace
RECURSIVE Started(_)
Started(steps) ==
    IF steps = << >> THEN 0
    ELSE (IF Head(steps)[1] = "Evaluating SPF for domain" THEN 1 ELSE 0) + Started(Tail(steps))

\* C28: every top-level evaluation ends with a result; every nested evaluation
\* was paid for by an increment of the lookup counter before it started, and
\* the counter stops at MAX_SPF_LOOKUPS + 1
C28_Terminates ==
    /\ <>SpfDone
    /\ [](Started(trace.steps) <= spf_lookups + 1)
    /\ [](spf_lookups <= MAX_SPF_LOOKUPS + 1)

\* the record whose include names a fresh domain at every level ran out of budget
C28_Witness ==
    /\ SpfDone
    /\ TopDomain \in DOMAIN zone
    /\ zone[TopDomain] = TxtOf(ChainRecord)
    /\ ChainName(MAX_SPF_LOOKUPS) \in seen
    /\ spf_result = "PERMERROR (too many DNS lookups)"

\* C29: the depth of every running evaluation is at most the lookup counter
\* and at most MAX_SPF_LOOKUPS, so the depth guard is never taken and no
\* evaluation returns PERMERROR (recursion depth exceeded)
C29_DepthWithinLookups ==
    /\ \A i \in 1..Len(stack) :
          /\ stack[i].depth <= spf_lookups
          /\ stack[i].depth <= MAX_SPF_LOOKUPS
          /\ stack[i].depth <= MAX_RECURSION_DEPTH
    /\ spf_result # "PERMERROR (recursion depth exceeded)"

\* an evaluation running at depth MAX_SPF_LOOKUPS
C29_Witness ==
    /\ stack # << >>
    /\ Frame.depth = MAX_SPF_LOOKUPS
    /\ spf_lookups = MAX_SPF_LOOKUPS

(***************************************************************************)
(* DMARC evaluator (src/dmarc_evaluator.py)                                *)
(*                                                                         *)
(* A TXT record is the sequence of its ";"-separated parts, each part the  *)
(* pair <<key, value>> that part.split("=", 1) yields.  An answer is       *)
(* [ok |-> FALSE] when _resolver.resolve raises (NXDOMAIN, timeout,        *)
(* SERVFAIL) and [ok |-> TRUE, rrs |-> <<record, ...>>] otherwise.         *)
(***************************************************************************)

\* publicsuffix2.get_sld on the model's names
get_sld(domain) ==
    CASE domain = "mail.example.com" -> "example.com"
      [] domain = "example.com"      -> "example.com"
      [] domain = "other.test"       -> "other.test"
      [] OTHER                       -> None

get_org_domain(domain) ==
    IF get_sld(domain) # None THEN get_sld(domain) ELSE domain

\* record.lower().startswith("v=dmarc1")
IsDmarcRecord(record) ==
    /\ Len(record) > 0
    /\ Lower(record[1][1]) = "v"
    /\ Lower(record[1][2]) = "dmarc1"

\* the (target, record) pairs one target contributes, in answer order
RECURSIVE DmarcRecordsAt(_, _, _)
DmarcRecordsAt(target, rrs, i) ==
    IF i > Len(rrs) THEN << >>
    ELSE (IF IsDmarcRecord(rrs[i]) THEN << << target, rrs[i] >> >> ELSE << >>)
         \o DmarcRecordsAt(target, rrs, i + 1)

DmarcTargetRecords(target, dns) ==
    IF dns[target].ok THEN DmarcRecordsAt(target, dns[target].rrs, 1) ELSE << >>

\* faulty variant: of several records the first is used
fetch_dmarc_record_FirstOfMany(domain, dns) ==
    LET org     == get_org_domain(domain)
        records == DmarcTargetRecords(domain, dns)
                   \o (IF org = domain THEN << >> ELSE DmarcTargetRecords(org, dns))
    IN  IF Len(records) = 0 THEN [found |-> FALSE]
        ELSE [found |-> TRUE, location |-> records[1][1], record |-> records[1][2]]

fetch_dmarc_record(domain, dns) ==
    LET org     == get_org_domain(domain)
        records == DmarcTargetRecords(domain, dns)
                   \o (IF org = domain THEN << >> ELSE DmarcTargetRecords(org, dns))
    IN  IF Len(records) = 0 THEN [found |-> FALSE]
        ELSE IF Len(records) > 1
             THEN [found |-> TRUE, error |-> "MULTIPLE_DMARC_RECORDS"]
             ELSE [found |-> TRUE, location |-> records[1][1], record |-> records[1][2]]

\* tags.get(key): the value of the last part whose lowered key is `key`
TagGet(record, key, default) ==
    LET idx == { i \in 1..Len(record) : Lower(record[i][1]) = key }
    IN  IF idx = {} THEN default
        ELSE Lower(record[CHOOSE i \in idx : \A j \in idx : j <= i][2])

\* int(str) on the pct strings the model publishes
StrToInt(s) ==
    CASE s = "0" -> 0 [] s = "50" -> 50 [] s = "100" -> 100

parse_dmarc_record(record) ==
    [ p     |-> TagGet(record, "p", "none"),
      sp    |-> TagGet(record, "sp", None),
      aspf  |-> TagGet(record, "aspf", "r"),
      adkim |-> TagGet(record, "adkim", "r"),
      pct   |-> StrToInt(TagGet(record, "pct", "100")) ]

is_aligned(auth_domain, from_domain, mode) ==
    IF ~Truthy(auth_domain) THEN FALSE
    ELSE IF mode = "s" THEN auth_domain = from_domain
    ELSE get_org_domain(auth_domain) = get_org_domain(from_domain)

\* int(hashlib.sha256(domain.encode()).hexdigest()[:4], 16) for the model's names
Sha256First16(domain) ==
    CASE domain = "example.com"      -> 41849
      [] domain = "mail.example.com" -> 16482
      [] domain = "other.test"       -> 26076

\* faulty variant: the bucket must lie strictly below pct
pct_allows_enforcement_Strict(domain, pct) ==
    LET bucket == (Sha256First16(domain) % 100) + 1
    IN  bucket < pct

pct_allows_enforcement(domain, pct) ==
    LET bucket == (Sha256First16(domain) % 100) + 1
    IN  bucket <= pct

\* the enforcement dict's .get(policy, "ALLOW")
EnforcementOfPolicy(policy) ==
    CASE policy = "none"       -> "ALLOW (monitoring)"
      [] policy = "quarantine" -> "QUARANTINE"
      [] policy = "reject"     -> "REJECT"
      [] OTHER                 -> "ALLOW"

\* faulty variant: sp wins wherever the record was found
OperativePolicy_AnyLocation(lookup, tags, header_from_domain) ==
    IF Truthy(tags.sp) THEN tags.sp ELSE tags.p

OperativePolicy(lookup, tags, header_from_domain) ==
    IF lookup.location # header_from_domain /\ Truthy(tags.sp)
    THEN tags.sp ELSE tags.p

\* faulty variant: alignment alone, whatever the authentication result
AuthAligned_AnyResult(result, auth_domain, from_domain, mode) ==
    is_aligned(auth_domain, from_domain, mode)

\* spf_aligned and dkim_aligned
AuthAligned(result, auth_domain, from_domain, mode) ==
    result = "PASS" /\ is_aligned(auth_domain, from_domain, mode)

\* faulty variant: the pct sampling is skipped
DmarcEnforcement_NoSampling(dmarc_pass, enforce, policy) ==
    IF dmarc_pass THEN "ALLOW" ELSE EnforcementOfPolicy(policy)

DmarcEnforcement(dmarc_pass, enforce, policy) ==
    IF dmarc_pass THEN "ALLOW"
    ELSE IF ~enforce THEN "ALLOW (pct sampling)"
    ELSE EnforcementOfPolicy(policy)

evaluate_dmarc(header_from_domain, spf_res, spf_domain, dkim_result, dkim_domain, dns) ==
    LET lookup == fetch_dmarc_record(header_from_domain, dns)
    IN  IF ~lookup.found
        THEN [ dmarc_present |-> FALSE, dmarc_result |-> "NONE", policy |-> "none",
               enforcement |-> "ALLOW", reason |-> "No DMARC record" ]
        ELSE IF "error" \in DOMAIN lookup
        THEN [ dmarc_present |-> TRUE, dmarc_result |-> "PERMERROR",
               reason |-> lookup.error, enforcement |-> "ALLOW" ]
        ELSE
        LET tags         == parse_dmarc_record(lookup.record)
            policy       == OperativePolicy(lookup, tags, header_from_domain)
            spf_aligned  == AuthAligned(spf_res, spf_domain, header_from_domain, tags.aspf)
            dkim_aligned == AuthAligned(dkim_result, dkim_domain, header_from_domain,
                                        tags.adkim)
            dmarc_pass   == spf_aligned \/ dkim_aligned
            enforce      == pct_allows_enforcement(header_from_domain, tags.pct)
            enforcement  == DmarcEnforcement(dmarc_pass, enforce, policy)
        IN  [ dmarc_present |-> TRUE,
              dmarc_record  |-> lookup.record,
              location      |-> lookup.location,
              policy        |-> policy,
              aspf          |-> tags.aspf,
              adkim         |-> tags.adkim,
              pct           |-> tags.pct,
              spf_aligned   |-> spf_aligned,
              dkim_aligned  |-> dkim_aligned,
              dmarc_result  |-> IF dmarc_pass THEN "PASS" ELSE "FAIL",
              enforcement   |-> enforcement ]


(***************************************************************************)
(* Inputs of evaluate_dmarc                                                *)
(***************************************************************************)
Absent == "absent"

\* "v=DMARC1; p=..; sp=..; aspf=..; adkim=..; pct=.." with absent tags left out
Part(key, value) == IF value = Absent THEN << >> ELSE << << key, value >> >>

MkDmarcRecord(p, sp, aspf, adkim, pct) ==
    << << "v", "DMARC1" >> >> \o Part("p", p) \o Part("sp", sp)
       \o Part("aspf", aspf) \o Part("adkim", adkim) \o Part("pct", pct)

PolicyTexts == { Absent, "none", "quarantine", "reject" }
SubPolicyTexts == { Absent, "", "quarantine" }
ModeTexts == { Absent, "s" }
PctTexts == { Absent, "0", "50" }

DmarcRecords ==
    { MkDmarcRecord(p, sp, aspf, adkim, pct) :
        p \in PolicyTexts, sp \in SubPolicyTexts,
        aspf \in ModeTexts, adkim \in ModeTexts, pct \in PctTexts }

\* a TXT record that is not a DMARC record
SpfTxtRecord == << << "v", "spf1 -all" >> >>

\* what is published at one _dmarc name, given the record under test
DmarcAnswerKinds == { "fail", "timeout", "nodmarc", "one", "two" }

DmarcAnswer(kind, record) ==
    CASE kind = "fail"    -> [ok |-> FALSE, rrs |-> << >>]
      [] kind = "timeout" -> [ok |-> FALSE, rrs |-> << >>, error |-> "Timeout"]
      [] kind = "nodmarc" -> [ok |-> TRUE, rrs |-> << SpfTxtRecord >>]
      [] kind = "one"     -> [ok |-> TRUE, rrs |-> << SpfTxtRecord, record >>]
      [] kind = "two"     -> [ok |-> TRUE,
                              rrs |-> << record, MkDmarcRecord("none", Absent, Absent, Absent, Absent) >>]

\* the sub-domain has its own _dmarc name; the two registrable names share one kind
DmarcDns(kind_sub, kind_org, record) ==
    [ d \in MailDomains |->
        IF d = SubDomain THEN DmarcAnswer(kind_sub, record)
        ELSE DmarcAnswer(kind_org, record) ]

AuthResults == { "PASS", "FAIL", "NONE", "TEMPERROR", "PERMERROR" }

\* (result, domain) pairs handed over by SPF and by DKIM
AuthInputs ==
    { << "PASS", d >> : d \in MailDomains \cup { None } }
    \cup { << r, OrgOfSub >> : r \in AuthResults \ { "PASS" } }

InitDmarc ==
    /\ pc = "evaluate_dmarc"
    /\ request = NoRequest
    /\ IdleSpf
    /\ dmarc_dns = << >>
    /\ dmarc_in = << >>
    /\ dmarc = IdleDmarc
    /\ dkim_info = << >>
    /\ report = << >>

\* one call evaluate_dmarc(header_from_domain=.., spf_result=.., ...)
CallEvaluateDmarc ==
    /\ pc = "evaluate_dmarc"
    /\ \E header_from \in MailDomains, spf \in AuthInputs, dkim \in AuthInputs,
          record \in DmarcRecords, kind_sub \in DmarcAnswerKinds,
          kind_org \in DmarcAnswerKinds :
          /\ dmarc_dns' = DmarcDns(kind_sub, kind_org, record)
          /\ dmarc_in' = [ header_from_domain |-> header_from,
                           spf_result |-> spf[1], spf_domain |-> spf[2],
                           dkim_result |-> dkim[1], dkim_domain |-> dkim[2] ]
          /\ dmarc' = evaluate_dmarc(header_from, spf[1], spf[2], dkim[1], dkim[2],
                                     dmarc_dns')
    /\ pc' = "done"
    /\ UNCHANGED << request, spfVars, dkim_info, report >>

NextDmarc == CallEvaluateDmarc

SpecDmarc == InitDmarc /\ [][NextDmarc]_vars


(***************************************************************************)
(* Properties of evaluate_dmarc (checked under SpecDmarc)                  *)
(***************************************************************************)
DmarcReturned == pc = "done" /\ dmarc_in # << >>

\* evaluate_dmarc located exactly one record and evaluated it
DmarcLocated == DmarcReturned /\ "location" \in DOMAIN dmarc

\* alignment as the DMARC rules state it: strict is equality, relaxed is the
\* same organizational domain; an undefined identity is never aligned
AlignedUnder(auth_domain, from_domain, mode) ==
    /\ auth_domain # None
    /\ auth_domain # ""
    /\ IF mode = "s" THEN auth_domain = from_domain
       ELSE get_sld(auth_domain) = get_sld(from_domain)

SpfContributes ==
    /\ dmarc_in.spf_result = "PASS"
    /\ AlignedUnder(dmarc_in.spf_domain, dmarc_in.header_from_domain, dmarc.aspf)

DkimContributes ==
    /\ dmarc_in.dkim_result = "PASS"
    /\ AlignedUnder(dmarc_in.dkim_domain, dmarc_in.header_from_domain, dmarc.adkim)

\* C1: with a single located DMARC record, dmarc_result is PASS iff SPF passed and
\* is aligned under aspf, or DKIM passed and is aligned under adkim; otherwise it is
\* FAIL.  A result other than PASS never contributes alignment.
C1_PassIffAlignedPass ==
    DmarcLocated =>
        /\ dmarc.dmarc_result = (IF SpfContributes \/ DkimContributes THEN "PASS" ELSE "FAIL")
        /\ dmarc.spf_aligned  => dmarc_in.spf_result = "PASS"
        /\ dmarc.dkim_aligned => dmarc_in.dkim_result = "PASS"

\* DMARC passes on DKIM alone while SPF, on an aligned domain, ended in TEMPERROR
C1_Witness ==
    /\ DmarcLocated
    /\ dmarc.dmarc_result = "PASS"
    /\ dmarc_in.spf_result = "TEMPERROR"
    /\ dmarc_in.spf_domain = dmarc_in.header_from_domain
    /\ dmarc_in.dkim_domain # dmarc_in.header_from_domain

SamplingApplies ==
    (Sha256First16(dmarc_in.header_from_domain) % 100) + 1 <= dmarc.pct

\* C8: enforcement is ALLOW when DMARC passes; on FAIL it is "ALLOW (pct sampling)"
\* when sampling does not apply and otherwise follows the operative policy
\* (none, quarantine, reject); QUARANTINE and REJECT need FAIL and sampling.
C8_EnforcementMapping ==
    DmarcReturned =>
        /\ dmarc.dmarc_result = "PASS" => dmarc.enforcement = "ALLOW"
        /\ (dmarc.dmarc_result = "FAIL" /\ ~SamplingApplies)
               => dmarc.enforcement = "ALLOW (pct sampling)"
        /\ (dmarc.dmarc_result = "FAIL" /\ SamplingApplies) =>
               /\ dmarc.policy = "none"       => dmarc.enforcement = "ALLOW (monitoring)"
               /\ dmarc.policy = "quarantine" => dmarc.enforcement = "QUARANTINE"
               /\ dmarc.policy = "reject"     => dmarc.enforcement = "REJECT"
        /\ dmarc.enforcement \in { "QUARANTINE", "REJECT" }
               => dmarc.dmarc_result = "FAIL" /\ SamplingApplies

\* a failing message of a domain whose bucket lies above pct, under p=reject
C8_Witness ==
    /\ DmarcLocated
    /\ dmarc.dmarc_result = "FAIL"
    /\ dmarc.policy = "reject"
    /\ dmarc.pct = 50
    /\ ~SamplingApplies
    /\ dmarc.enforcement = "ALLOW (pct sampling)"

\* the sampling bucket of a domain: the first 16 bits of its SHA-256, mod 100, plus 1
BucketOf(domain) == (Sha256First16(domain) % 100) + 1

\* C11: the bucket is a function of the header-from domain with value in 1..100
\* and a failing message is spared by sampling exactly when the bucket exceeds
\* pct: always at pct=0, never at pct=100
C11_SamplingBucket ==
    DmarcLocated =>
        LET b == BucketOf(dmarc_in.header_from_domain)
        IN  /\ b \in 1..100
            /\ dmarc.dmarc_result = "FAIL" =>
                  /\ (dmarc.enforcement = "ALLOW (pct sampling)") <=> ~(b <= dmarc.pct)
                  /\ dmarc.pct = 0 => dmarc.enforcement = "ALLOW (pct sampling)"
                  /\ dmarc.pct = 100 => dmarc.enforcement = EnforcementOfPolicy(dmarc.policy)

\* example.com lies in bucket 50: at pct=50 its failing message is still rejected
C11_Witness ==
    /\ DmarcLocated
    /\ dmarc_in.header_from_domain = OrgOfSub
    /\ BucketOf(OrgOfSub) = dmarc.pct
    /\ dmarc.dmarc_result = "FAIL"
    /\ dmarc.policy = "reject"
    /\ dmarc.enforcement = "REJECT"

\* the DMARC records published at _dmarc.<name>
PublishedAt(name) ==
    IF dmarc_dns[name].ok
    THEN { i \in 1..Len(dmarc_dns[name].rrs) : IsDmarcRecord(dmarc_dns[name].rrs[i]) }
    ELSE { }

\* C9: when exactly one DMARC record is published at _dmarc.<header_from>, that
\* record is the one used (location = header_from), whatever the organizational
\* domain publishes.
C9_FirstLocationWins ==
    (DmarcReturned /\ Cardinality(PublishedAt(dmarc_in.header_from_domain)) = 1) =>
        /\ "location" \in DOMAIN dmarc
        /\ dmarc.location = dmarc_in.header_from_domain
        /\ \E i \in PublishedAt(dmarc_in.header_from_domain) :
              dmarc.dmarc_record = dmarc_dns[dmarc_in.header_from_domain].rrs[i]

\* the TXT query for _dmarc.<name> failed for a transient reason
TimedOutAt(name) == ~dmarc_dns[name].ok /\ "error" \in DOMAIN dmarc_dns[name]

\* C19: a transient failure of the TXT fetch of a DMARC location gives DMARC
\* TEMPERROR; the location is not taken to publish nothing
C19_TransientIsTemperror ==
    (DmarcReturned /\ TimedOutAt(dmarc_in.header_from_domain))
       => dmarc.dmarc_result = "TEMPERROR"

\* the location discovery settles on: header_from when it publishes a DMARC
\* record, its organizational domain otherwise
ChosenLocation ==
    IF PublishedAt(dmarc_in.header_from_domain) # { } THEN dmarc_in.header_from_domain
    ELSE get_org_domain(dmarc_in.header_from_domain)

\* C15: more than one DMARC record at the chosen location gives PERMERROR with
\* enforcement ALLOW, whatever SPF and DKIM returned
C15_MultipleRecordsPermerror ==
    (DmarcReturned /\ Cardinality(PublishedAt(ChosenLocation)) > 1) =>
        /\ dmarc.dmarc_result = "PERMERROR"
        /\ dmarc.enforcement = "ALLOW"
        /\ dmarc.reason = "MULTIPLE_DMARC_RECORDS"

\* two records at _dmarc.example.com while SPF passed on the very domain
C15_Witness ==
    /\ DmarcReturned
    /\ dmarc_in.header_from_domain = OrgOfSub
    /\ Cardinality(PublishedAt(OrgOfSub)) = 2
    /\ dmarc_in.spf_result = "PASS"
    /\ dmarc_in.spf_domain = OrgOfSub
    /\ dmarc.dmarc_result = "PERMERROR"
    /\ dmarc.enforcement = "ALLOW"

\* C10: the operative policy is the sp tag exactly when the record was located at the
\* organizational domain, not at header_from, and sp is non-empty; otherwise it is
\* the p tag (none when absent).  The record p=reject; sp=quarantine found at the
\* organizational domain of a failing sub-domain message at pct=100 gives QUARANTINE.
C10_OperativePolicy ==
    DmarcLocated =>
        LET sp == TagGet(dmarc.dmarc_record, "sp", "")
            p  == TagGet(dmarc.dmarc_record, "p", "none")
        IN  /\ dmarc.policy =
                 (IF dmarc.location # dmarc_in.header_from_domain /\ sp # "" THEN sp ELSE p)
            /\ ( /\ dmarc_in.header_from_domain = SubDomain
                 /\ dmarc.location = OrgOfSub
                 /\ p = "reject" /\ sp = "quarantine" /\ dmarc.pct = 100
                 /\ dmarc.dmarc_result = "FAIL" )
               => dmarc.enforcement = "QUARANTINE"

C10_Witness ==
    /\ DmarcLocated
    /\ dmarc_in.header_from_domain = SubDomain
    /\ dmarc.location = OrgOfSub
    /\ TagGet(dmarc.dmarc_record, "p", "none") = "reject"
    /\ TagGet(dmarc.dmarc_record, "sp", "") = "quarantine"
    /\ dmarc.pct = 100
    /\ dmarc.dmarc_result = "FAIL"
    /\ dmarc.enforcement = "QUARANTINE"

(***************************************************************************)
(* run_mail_check (src/mail_engine.py) and check_dkim                      *)
(* (src/dkim_evaluator.py)                                                 *)
(*                                                                         *)
(* A message is [present, from_header, verify, signatures]: the domain its *)
(* From header shows as written (None without one), what dkim.verify does  *)
(* with it, and the d= and s= tags of its DKIM-Signature headers; present  *)
(* is FALSE when no message came with the request.  The SPF part           *)
(* is the evaluation above, entered by CallEvaluateSpf; the printable      *)
(* trees of the report are left out.                                       *)
(***************************************************************************)
HasAt(mail_from) == mail_from \in { "bounce@Other.TEST", "user@example.com" }

\* mail_from.split("@", 1)[1]
AfterAt(mail_from) ==
    CASE mail_from = "bounce@Other.TEST" -> "Other.TEST"
      [] mail_from = "user@example.com"  -> "example.com"
      [] OTHER                           -> mail_from

\* spf_domain as run_mail_check derives it
SpfDomainOf(domain, mail_from) ==
    IF Truthy(mail_from) /\ HasAt(mail_from) THEN Lower(AfterAt(mail_from)) ELSE domain

\* extract_header_from_domain(raw_email)
extract_header_from_domain(raw_email) ==
    IF raw_email.from_header = None THEN None ELSE Lower(raw_email.from_header)

\* _verify_dkim(raw_email)
_verify_dkim(raw_email) ==
    IF raw_email.verify \in { "valid", "invalid" }
    THEN [ dkim_present |-> TRUE,
           dkim_result  |-> IF raw_email.verify = "valid" THEN "PASS" ELSE "FAIL",
           dkim_valid   |-> raw_email.verify = "valid" ]
    ELSE [ dkim_present |-> TRUE,
           dkim_result  |-> IF raw_email.verify = "temporary" THEN "TEMPERROR"
                            ELSE "PERMERROR",
           dkim_valid   |-> FALSE,
           error        |-> raw_email.verify ]

\* _extract_dkim_signatures(raw_email)
_extract_dkim_signatures(raw_email) ==
    [ i \in 1..Len(raw_email.signatures) |->
        [ domain |-> Lower(raw_email.signatures[i].d), selector |-> raw_email.signatures[i].s ] ]

\* header_from_domain.endswith("." + d)
EndsWithDot(name, d) == name = SubDomain /\ d = OrgOfSub

\* faulty variant: the first signature is taken, aligned or not
_select_dkim_for_dmarc_First(signatures, header_from_domain) ==
    IF signatures = << >> THEN None ELSE signatures[1].domain

\* _select_dkim_for_dmarc(signatures, header_from_domain)
_select_dkim_for_dmarc(signatures, header_from_domain) ==
    IF signatures = << >> THEN None
    ELSE LET hits == { i \in 1..Len(signatures) :
                         /\ Truthy(header_from_domain)
                         /\ \/ Lower(header_from_domain) = signatures[i].domain
                            \/ EndsWithDot(Lower(header_from_domain), signatures[i].domain) }
         IN  IF hits # { }
             THEN signatures[CHOOSE i \in hits : \A k \in hits : i <= k].domain
             ELSE signatures[1].domain

\* check_dkim(raw_email, header_from_domain)
check_dkim(raw_email, header_from_domain) ==
    LET signatures == _extract_dkim_signatures(raw_email)
    IN  [ k \in { "dkim_domain", "dkim_aligned", "dkim_signatures_found", "dkim_signatures" }
            |-> CASE k = "dkim_domain" -> _select_dkim_for_dmarc(signatures, header_from_domain)
                  [] k = "dkim_aligned" -> FALSE
                  [] k = "dkim_signatures_found" -> Len(signatures)
                  [] OTHER -> signatures ]
        @@ _verify_dkim(raw_email)

Sig(d) == [ d |-> d, s |-> "s1" ]

\* raw_email = None
NoMessage == [ present |-> FALSE ]

Messages ==
    { [ present |-> TRUE, from_header |-> None, verify |-> "permanent", signatures |-> << >> ],
      [ present |-> TRUE, from_header |-> "Other.TEST", verify |-> "temporary", signatures |-> << Sig("other.test") >> ],
      [ present |-> TRUE, from_header |-> MailHost, verify |-> "valid",
        signatures |-> << Sig("other.test"), Sig(OrgOfSub) >> ],
      [ present |-> TRUE, from_header |-> OrgOfSub, verify |-> "invalid", signatures |-> << Sig(OrgOfSub) >> ],
      [ present |-> TRUE, from_header |-> OrgOfSub, verify |-> "invalid", signatures |-> << >> ],
      [ present |-> TRUE, from_header |-> OrgOfSub, verify |-> "valid",
        signatures |-> << Sig("Other.TEST"), Sig(MailHost) >> ],
      [ present |-> TRUE, from_header |-> MailHost, verify |-> "valid",
        signatures |-> << Sig(OrgOfSub), Sig(MailHost) >> ] }

MailRequests ==
    { [ entry |-> "run_mail_check", domain |-> domain, ip |-> SenderIp,
        mail_from |-> mail_from, helo |-> None, raw_email |-> raw_email ] :
        domain \in { MailHost, OrgOfSub },
        mail_from \in { None, "postmaster", "bounce@Other.TEST", "user@example.com" },
        raw_email \in Messages \cup { NoMessage } }

InitMail ==
    /\ pc = "spf_call"
    /\ request \in MailRequests
    /\ IdleSpf
    /\ dmarc_dns = << >>
    /\ dmarc_in = << >>
    /\ dmarc = IdleDmarc
    /\ dkim_info = << >>
    /\ report = << >>

\* run_mail_check after evaluate_spf returned: spf_domain, result["spf"], the
\* DKIM part and result["dkim"]; dmarc_in keeps the locals evaluate_dmarc is given
CheckDkim ==
    /\ pc = "spf_done"
    /\ request.entry = "run_mail_check"
    /\ LET spf_domain == SpfDomainOf(request.domain, request.mail_from)
           spf_part   == [ result |-> spf_result, domain |-> spf_domain,
                           dns_lookups |-> trace.lookups, trace |-> trace.steps ]
       IN  IF request.raw_email.present
           THEN LET extracted_from == extract_header_from_domain(request.raw_email)
                    header_from_domain == IF Truthy(extracted_from) THEN extracted_from
                                          ELSE request.domain
                    info == check_dkim(request.raw_email, header_from_domain)
                IN  /\ dkim_info' = info
                    /\ report' = [ spf  |-> spf_part,
                                   dkim |-> [ performed |-> TRUE,
                                              header_from_domain |-> header_from_domain,
                                              result |-> info.dkim_result,
                                              domain |-> info.dkim_domain,
                                              aligned |-> info.dkim_aligned,
                                              signatures |-> info.dkim_signatures,
                                              raw |-> info ] ]
                    /\ dmarc_in' = [ header_from_domain |-> header_from_domain,
                                     spf_result |-> spf_result, spf_domain |-> spf_domain,
                                     dkim_result |-> info.dkim_result,
                                     dkim_domain |-> info.dkim_domain ]
           ELSE /\ dkim_info' = dkim_info
                /\ report' = [ spf  |-> spf_part,
                               dkim |-> [ performed |-> FALSE, result |-> "NONE",
                                          domain |-> None, aligned |-> FALSE ] ]
                /\ dmarc_in' = [ header_from_domain |-> request.domain,
                                 spf_result |-> spf_result, spf_domain |-> spf_domain,
                                 dkim_result |-> "NONE", dkim_domain |-> None ]
    /\ pc' = "dkim_done"
    /\ UNCHANGED << request, spfVars, dmarc_dns, dmarc >>

MailDmarcRecord == MkDmarcRecord("reject", Absent, Absent, Absent, Absent)

\* dmarc = evaluate_dmarc(header_from_domain=.., spf_result=.., ...)
EvaluateDmarc ==
    /\ pc = "dkim_done"
    /\ \E kind_sub \in DmarcAnswerKinds, kind_org \in DmarcAnswerKinds :
          /\ dmarc_dns' = DmarcDns(kind_sub, kind_org, MailDmarcRecord)
          /\ dmarc' = evaluate_dmarc(dmarc_in.header_from_domain, dmarc_in.spf_result,
                                     dmarc_in.spf_domain, dmarc_in.dkim_result,
                                     dmarc_in.dkim_domain, dmarc_dns')
    /\ pc' = "dmarc_done"
    /\ UNCHANGED << request, spfVars, dmarc_in, dkim_info, report >>

\* build_dmarc_tree(dmarc) reads dmarc['policy'], dmarc['aspf'], .. of a record found
TreeKeys ==
    { "policy", "aspf", "adkim", "pct", "spf_aligned", "dkim_aligned", "dmarc_result",
      "enforcement" }

BuildDmarcTreeRaises(d) == Get(d, "dmarc_present") = TRUE /\ ~(TreeKeys \subseteq DOMAIN d)

\* dmarc_tree = build_dmarc_tree(dmarc); result["dmarc"] = {..}; return result
BuildReport ==
    /\ pc = "dmarc_done"
    /\ IF BuildDmarcTreeRaises(dmarc)
       THEN pc' = "raised" /\ report' = report
       ELSE /\ pc' = "returned"
            /\ report' = [ spf   |-> report.spf,
                           dkim  |-> report.dkim,
                           dmarc |-> [ present   |-> Get(dmarc, "present"),
                                       result    |-> Get(dmarc, "result"),
                                       policy    |-> Get(dmarc, "policy"),
                                       alignment |-> Get(dmarc, "alignment"),
                                       reason    |-> Get(dmarc, "reason"),
                                       raw       |-> dmarc ] ]
    /\ UNCHANGED << request, spfVars, dmarc_dns, dmarc_in, dmarc, dkim_info >>

NextMail ==
    \/ CallEvaluateSpf
    \/ ExpModifier
    \/ RedirectModifier
    \/ IpMechanism
    \/ IncludeMechanism
    \/ AMechanism
    \/ MxMechanism
    \/ ExistsMechanism
    \/ PtrMechanism
    \/ AllMechanism
    \/ UnknownMechanism
    \/ EndOfRecord
    \/ CheckDkim
    \/ EvaluateDmarc
    \/ BuildReport

SpecMail == InitMail /\ [][NextMail]_vars

(***************************************************************************)
(* Properties of run_mail_check                                            *)
(***************************************************************************)
\* the domain the SPF evaluation was started for, once it was started
EvaluatedDomain == trace.steps[1][2]

\* C6: the domain run_mail_check evaluates SPF for is spf_domain (the domain
\* part of mail_from when it holds an "@", the request domain otherwise), so
\* the SPF result and the spf_domain handed to evaluate_dmarc are of one domain
C6_SpfEvaluatesSpfDomain ==
    (request.entry = "run_mail_check" /\ pc # "spf_call") =>
       /\ EvaluatedDomain = normalize_domain(SpfDomainOf(request.domain, request.mail_from))
       /\ pc \in { "dkim_done", "dmarc_done", "returned", "raised" } =>
             normalize_domain(dmarc_in.spf_domain) = EvaluatedDomain

\* C7: the report's spf, dkim and dmarc sub-objects each carry the result
\* their evaluator produced; report.dmarc.result is evaluate_dmarc's dmarc_result
C7_ReportCarriesResults ==
    pc = "returned" =>
       /\ report.spf.result = spf_result
       /\ report.dkim.result = dmarc_in.dkim_result
       /\ report.dmarc.result = dmarc.dmarc_result

\* check_dkim ran on the message of the request
DkimChecked ==
    /\ request.entry = "run_mail_check"
    /\ request.raw_email.present
    /\ pc \in { "dkim_done", "dmarc_done", "returned", "raised" }

\* C16: a message from which no DKIM signature is retained gives dkim_present
\* false and dkim_result NONE, and no DKIM domain is selected
C16_NoSignatureIsNone ==
    (DkimChecked /\ dkim_info.dkim_signatures = << >>) =>
       /\ dkim_info.dkim_present = FALSE
       /\ dkim_info.dkim_result = "NONE"
       /\ dkim_info.dkim_domain = None

\* signature i is of the header-from domain or of a parent of it
Fits(i) ==
    LET F == dmarc_in.header_from_domain
        d == dkim_info.dkim_signatures[i].domain
    IN  F = d \/ EndsWithDot(F, d)

\* C17: the selected DKIM domain is the d of the first signature, in header
\* order, whose d is the header-from domain or a parent of it; without such a
\* signature it is the d of the first signature; without signatures it is None
C17_SelectsFirstFitting ==
    DkimChecked =>
       LET sigs == dkim_info.dkim_signatures
           sel  == dkim_info.dkim_domain
       IN  /\ sigs = << >> => sel = None
           /\ sigs # << >> => \E i \in 1..Len(sigs) : sel = sigs[i].domain
           /\ (\E i \in 1..Len(sigs) : Fits(i)) =>
                 \E i \in 1..Len(sigs) :
                    /\ Fits(i)
                    /\ \A k \in 1..(i - 1) : ~Fits(k)
                    /\ sel = sigs[i].domain
           /\ (sigs # << >> /\ \A i \in 1..Len(sigs) : ~Fits(i)) => sel = sigs[1].domain

\* the second signature is the first that fits and is the one selected
C17_Witness ==
    /\ DkimChecked
    /\ Len(dkim_info.dkim_signatures) = 2
    /\ ~Fits(1)
    /\ Fits(2)
    /\ dkim_info.dkim_domain = dkim_info.dkim_signatures[2].domain
    /\ dkim_info.dkim_domain # dkim_info.dkim_signatures[1].domain


=============================================================================
